---- MODULE Spec2Model ----
(***************************************************************************)
(* Model of pytorch_lightning/utilities/cli.py: LightningArgumentParser,   *)
(* SaveConfigCallback and the LightningCLI pipeline run by                 *)
(* LightningCLI.__init__.                                                  *)
(*                                                                         *)
(* One run of LightningCLI.__init__ is one behaviour.  The classes handed  *)
(* to the constructor, the caller's **kwargs, the command line (the result *)
(* of parse_args), the outcome of every external constructor and of        *)
(* trainer.fit are inputs, drawn from small sets.  An exception leaves     *)
(* __init__ at once (there is no try/except in the file): pc = "aborted".  *)
(*                                                                         *)
(* Values of the configuration tree are records [kind, items]: None, a     *)
(* scalar, or a list.  The tree is kept flat: a function from options      *)
(* [key, param] to values; a top-level option has param = "".              *)
(***************************************************************************)
EXTENDS Integers, Sequences, FiniteSets, TLC

VARIABLES
    model_class, datamodule_class, save_config_callback, trainer_class,
    caller_kwargs, trainer_kwargs,
    pc, steps, completed, error, failed_at,
    options, registered, extra_options,
    config, config_init, parsed,
    model, fit_kwargs, trainer, cb_instances, trainer_calls,
    logger, fit_calls, fit_result, hook_log, saves, files

vars == << model_class, datamodule_class, save_config_callback, trainer_class,
           caller_kwargs, trainer_kwargs,
           pc, steps, completed, error, failed_at,
           options, registered, extra_options,
           config, config_init, parsed,
           model, fit_kwargs, trainer, cb_instances, trainer_calls,
           logger, fit_calls, fit_result, hook_log, saves, files >>

----------------------------------------------------------------------------
(* Bounds *)

\* longest trainer.callbacks list the command line can configure
MaxCallbacks == 1

\* number of extra options an add_arguments_to_parser override may add
MaxExtra == 1

----------------------------------------------------------------------------
(* Values *)

NoneVal == [kind |-> "none", items |-> << >>]

Scalar(s) == [kind |-> "scalar", items |-> << s >>]

List(s) == [kind |-> "list", items |-> s]

NoClass == "None"

Option(k, p) == [key |-> k, param |-> p]

EmptyTree == [o \in {} |-> NoneVal]

EmptyDict == [k \in {} |-> NoneVal]

ExtraNames == << "foo", "bar", "baz" >>

ExtraOptionNames == { ExtraNames[i] : i \in 1..MaxExtra }

\* the instance appended by instantiate_trainer, as it shows in a list
SaveConfigInstance == "SaveConfigCallback()"

\* a trainer.callbacks entry as parsed (class_path + init_args), and the
\* instance instantiate_subclasses makes of it
CallbackSpec == "class_path:EarlyStopping"

CallbackInstance == "EarlyStopping()"

----------------------------------------------------------------------------
(* Classes the caller can hand to LightningCLI *)

TrainerClasses == { "Trainer", "NotATrainer" }

ModelClasses == { "MyModel", "NotAModule" }

DataClasses == { NoClass, "MyDataModule", "NotADataModule" }

CallbackClasses == { NoClass, "SaveConfigCallback" }

\* issubclass(cls, base)
IsSubclass(cls, base) ==
    \/ cls = base
    \/ cls = "MyModel" /\ base = "LightningModule"
    \/ cls = "MyDataModule" /\ base = "LightningDataModule"

\* constructor parameters (without self) of a class
ClassParams(cls) ==
    CASE cls = "Trainer" -> { "callbacks", "max_epochs" }
      [] cls = "MyModel" -> { "lr" }
      [] cls = "MyDataModule" -> { "batch_size" }
      [] OTHER -> { "x" }

\* what the caller can pass as **kwargs
CallerKwargs ==
    { [k \in ks |-> CASE k = "callbacks" -> List(<< "UserCallback()" >>)
                      [] k = "max_epochs" -> Scalar("5")
                      [] OTHER -> Scalar("ddp")] :
        ks \in SUBSET { "callbacks", "max_epochs", "plugins" } }

----------------------------------------------------------------------------
(* Pure helpers *)

\* dict.update
Update(d, e) ==
    [k \in DOMAIN d \cup DOMAIN e |-> IF k \in DOMAIN e THEN e[k] ELSE d[k]]

\* cfg[key] / cfg.get(key, {}) of the nested dictionary
Section(cfg, k) ==
    [p \in { o.param : o \in { x \in DOMAIN cfg : x.key = k } } |->
        cfg[Option(k, p)]]

TopKeys(cfg) == { o.key : o \in DOMAIN cfg }

Count(s, x) == Cardinality({ i \in 1..Len(s) : s[i] = x })

IsPrefix(s, t) == Len(s) <= Len(t) /\ s = SubSeq(t, 1, Len(s))

----------------------------------------------------------------------------
(* LightningArgumentParser *)

\* the argument parser: its registered options and, for every nested key,
\* the classes registered under it
NewParser == [options |-> {}, registered |-> {}]

\* ArgumentParser.add_class_arguments(cls, nested_key): one option per
\* constructor parameter, named <nested_key>.<parameter>
add_class_arguments(P, cls, nested_key) ==
    [ok |-> TRUE,
     options |-> P.options \cup { Option(nested_key, p) : p \in ClassParams(cls) },
     registered |-> P.registered \cup { [key |-> nested_key, cls |-> cls] }]

\* a failed assert: AssertionError, the parser untouched
AssertFailed(P) ==
    [ok |-> FALSE, options |-> P.options, registered |-> P.registered]

ParserInitNoConfig(P) ==
    [options |-> P.options, registered |-> P.registered]

\* LightningArgumentParser.__init__: adds the --config option
ParserInit(P) ==
    [options |-> P.options \cup { Option("config", "") },
     registered |-> P.registered]

add_trainer_args_unchecked(P, cls, nested_key) ==
    add_class_arguments(P, cls, nested_key)

add_trainer_args(P, cls, nested_key) ==
    IF IsSubclass(cls, "Trainer")
    THEN add_class_arguments(P, cls, nested_key)
    ELSE AssertFailed(P)

add_module_args(P, cls, nested_key) ==
    IF IsSubclass(cls, "LightningModule")
    THEN add_class_arguments(P, cls, nested_key)
    ELSE AssertFailed(P)

add_datamodule_args(P, cls, nested_key) ==
    IF IsSubclass(cls, "LightningDataModule")
    THEN add_class_arguments(P, cls, nested_key)
    ELSE AssertFailed(P)

\* the values the command line, the environment and the config files can
\* give an option
ValueDomain(o) ==
    CASE o = Option("trainer", "callbacks") ->
            { NoneVal } \cup
            { List([i \in 1..n |-> CallbackSpec]) : n \in 0..MaxCallbacks }
      [] o = Option("trainer", "max_epochs") -> { NoneVal, Scalar("1") }
      [] o = Option("model", "lr") -> { NoneVal, Scalar("0.01") }
      [] o = Option("data", "batch_size") -> { NoneVal, Scalar("32") }
      [] o = Option("config", "") -> { NoneVal }
      [] OTHER -> { NoneVal, Scalar("v") }

Extend(t, o, v) == [x \in DOMAIN t \cup { o } |-> IF x = o THEN v ELSE t[x]]

\* ArgumentParser.parse_args (parse_as_dict=True): a dictionary with one
\* entry per registered option
RECURSIVE ParseResults(_)
ParseResults(opts) ==
    IF opts = {} THEN { EmptyTree }
    ELSE LET o == CHOOSE x \in opts : TRUE
         IN  { Extend(t, o, v) : t \in ParseResults(opts \ { o }),
                                 v \in ValueDomain(o) }

Instantiate(x) == IF x = CallbackSpec THEN CallbackInstance ELSE x

\* ArgumentParser.instantiate_subclasses: a copy of the tree in which every
\* class_path entry is replaced by an instance
Expand(cfg) ==
    [o \in DOMAIN cfg |->
        IF cfg[o].kind = "list"
        THEN List([i \in 1..Len(cfg[o].items) |-> Instantiate(cfg[o].items[i])])
        ELSE cfg[o]]

\* ArgumentParser.save(cfg, path, skip_none): what reaches the file
Dump(cfg, skip_none) ==
    IF skip_none
    THEN [o \in { x \in DOMAIN cfg : cfg[x].kind # "none" } |-> cfg[o]]
    ELSE cfg

----------------------------------------------------------------------------
(* SaveConfigCallback *)

LoggerNone == "logger=None"

LogDirNone == "log_dir=None"

LogDir == "lightning_logs/version_0"

\* the trainer's logger as the constructor leaves it
LoggerStates == { LoggerNone, LogDirNone, LogDir }

\* SaveConfigCallback.__init__
NewSaveConfigCallback(parser, cfg) == [parser |-> parser, config |-> cfg]

HookOutcomeNoCheck(lg) == "ok"

\* line 95: trainer.logger.log_dir with no logger is an AttributeError,
\* os.path.join(None, ...) a TypeError
HookOutcome(lg) ==
    CASE lg = LoggerNone -> "AttributeError"
      [] lg = LogDirNone -> "TypeError"
      [] OTHER -> "ok"

\* os.path.join(log_dir, 'config.yaml')
PathJoin(a, b) == << a, b >>

\* the arguments of self.parser.save in on_train_start
SaveArgs(cb, lg) ==
    [cfg |-> cb.config, path |-> PathJoin(lg, "config.yaml"), skip_none |-> FALSE]

----------------------------------------------------------------------------
(* LightningCLI.__init__: the order of the steps *)

PipelineOrder ==
    << "init_parser", "add_arguments_to_parser", "add_core_arguments_to_parser",
       "before_parse_arguments", "parse_arguments", "before_instantiate_classes",
       "instantiate_classes", "before_fit", "fit", "after_fit" >>

AfterFitFirst(step) ==
    CASE step = "init_parser" -> "add_arguments_to_parser"
      [] step = "add_arguments_to_parser" -> "add_core_arguments_to_parser"
      [] step = "add_core_arguments_to_parser" -> "before_parse_arguments"
      [] step = "before_parse_arguments" -> "parse_arguments"
      [] step = "parse_arguments" -> "before_instantiate_classes"
      [] step = "before_instantiate_classes" -> "instantiate_classes"
      [] step = "instantiate_classes" -> "fit"
      [] step = "fit" -> "before_fit"
      [] step = "before_fit" -> "after_fit"
      [] OTHER -> "done"

\* the statement of __init__ that follows the call of step
After(step) ==
    CASE step = "init_parser" -> "add_arguments_to_parser"
      [] step = "add_arguments_to_parser" -> "add_core_arguments_to_parser"
      [] step = "add_core_arguments_to_parser" -> "before_parse_arguments"
      [] step = "before_parse_arguments" -> "parse_arguments"
      [] step = "parse_arguments" -> "before_instantiate_classes"
      [] step = "before_instantiate_classes" -> "instantiate_classes"
      [] step = "instantiate_classes" -> "before_fit"
      [] step = "before_fit" -> "fit"
      [] step = "fit" -> "after_fit"
      [] OTHER -> "done"

OnRaiseSwallowed(step) ==
    IF step = "instantiate_classes" THEN After(step) ELSE "aborted"

OnRaiseRetry(step) ==
    IF step = "fit" THEN "fit" ELSE "aborted"

\* where control goes when a call made by step raises: nothing in the file
\* catches an exception, so it leaves __init__
OnRaise(step) == "aborted"

\* errors of the external constructors and of trainer.fit
ConstructionErrors == { "TypeError", "ValueError" }

FitErrors == { "RuntimeError" }

StateErrors == { "AttributeError", "TypeError" }

Raise(step, at, e) ==
    /\ pc' = OnRaise(step)
    /\ error' = e
    /\ failed_at' = at

NoRaise == UNCHANGED << error, failed_at >>

Start(step) == steps' = Append(steps, step)

Finish(step) == completed' = Append(completed, step)

inputs == << model_class, datamodule_class, save_config_callback,
             trainer_class, caller_kwargs >>

\* parsed records what parse_args returned, for the properties
kept == << inputs, parsed >>

parser_vars == << options, registered, extra_options >>

object_vars == << model, fit_kwargs, trainer, cb_instances, trainer_calls,
                  trainer_kwargs, logger >>

run_vars == << fit_calls, fit_result, hook_log, saves, files >>

----------------------------------------------------------------------------
(* State after lines 139-143 of LightningCLI.__init__ *)

Init ==
    /\ model_class \in ModelClasses
    /\ datamodule_class \in DataClasses
    /\ save_config_callback \in CallbackClasses
    /\ trainer_class \in TrainerClasses
    /\ caller_kwargs \in CallerKwargs
    /\ trainer_kwargs = caller_kwargs
    /\ pc = "init_parser"
    /\ steps = << >>
    /\ completed = << >>
    /\ error = ""
    /\ failed_at = ""
    /\ options = NewParser.options
    /\ registered = NewParser.registered
    /\ extra_options = {}
    /\ config = EmptyTree
    /\ config_init = EmptyTree
    /\ parsed = << >>
    /\ model = << >>
    /\ fit_kwargs = EmptyDict
    /\ trainer = << >>
    /\ cb_instances = << >>
    /\ trainer_calls = << >>
    /\ logger = ""
    /\ fit_calls = << >>
    /\ fit_result = << >>
    /\ hook_log = << >>
    /\ saves = << >>
    /\ files = {}

----------------------------------------------------------------------------
(* Steps 1-6: parser, registration, parse *)

\* init_parser: self.parser = LightningArgumentParser(...)
InitParser ==
    /\ pc = "init_parser"
    /\ Start("init_parser") /\ Finish("init_parser")
    /\ LET P == ParserInit(NewParser)
       IN  options' = P.options /\ registered' = P.registered
    /\ pc' = After("init_parser")
    /\ NoRaise
    /\ UNCHANGED << kept, extra_options, config, config_init, object_vars,
                    run_vars >>

\* add_arguments_to_parser: a no-op in LightningCLI, "implement to add extra
\* arguments to parser": an override adds any set of top-level options
AddArgumentsToParser ==
    /\ pc = "add_arguments_to_parser"
    /\ Start("add_arguments_to_parser") /\ Finish("add_arguments_to_parser")
    /\ \E extra \in SUBSET ExtraOptionNames :
          /\ extra_options' = extra
          /\ options' = options \cup { Option(e, "") : e \in extra }
    /\ pc' = After("add_arguments_to_parser")
    /\ NoRaise
    /\ UNCHANGED << kept, registered, config, config_init, object_vars,
                    run_vars >>

\* add_core_arguments_to_parser, line 186
AddTrainerArgs ==
    /\ pc = "add_core_arguments_to_parser"
    /\ Start("add_core_arguments_to_parser")
    /\ LET R == add_trainer_args([options |-> options, registered |-> registered],
                                 trainer_class, "trainer")
       IN  /\ options' = R.options
           /\ registered' = R.registered
           /\ IF R.ok
              THEN pc' = "add_module_args" /\ NoRaise
              ELSE Raise("add_core_arguments_to_parser", "add_trainer_args",
                         "AssertionError")
    /\ UNCHANGED << kept, completed, extra_options, config, config_init,
                    object_vars, run_vars >>

\* add_core_arguments_to_parser, lines 187-188
AddModuleArgs ==
    /\ pc = "add_module_args"
    /\ LET R == add_module_args([options |-> options, registered |-> registered],
                                model_class, "model")
       IN  /\ options' = R.options
           /\ registered' = R.registered
           /\ IF ~R.ok
              THEN /\ Raise("add_core_arguments_to_parser", "add_module_args",
                            "AssertionError")
                   /\ UNCHANGED completed
              ELSE IF datamodule_class # NoClass
              THEN pc' = "add_datamodule_args" /\ NoRaise /\ UNCHANGED completed
              ELSE /\ pc' = After("add_core_arguments_to_parser")
                   /\ Finish("add_core_arguments_to_parser")
                   /\ NoRaise
    /\ UNCHANGED << kept, steps, extra_options, config, config_init,
                    object_vars, run_vars >>

\* add_core_arguments_to_parser, line 189
AddDatamoduleArgs ==
    /\ pc = "add_datamodule_args"
    /\ LET R == add_datamodule_args([options |-> options, registered |-> registered],
                                    datamodule_class, "data")
       IN  /\ options' = R.options
           /\ registered' = R.registered
           /\ IF R.ok
              THEN /\ pc' = After("add_core_arguments_to_parser")
                   /\ Finish("add_core_arguments_to_parser")
                   /\ NoRaise
              ELSE /\ Raise("add_core_arguments_to_parser", "add_datamodule_args",
                            "AssertionError")
                   /\ UNCHANGED completed
    /\ UNCHANGED << kept, steps, extra_options, config, config_init,
                    object_vars, run_vars >>

\* before_parse_arguments: a no-op
BeforeParseArguments ==
    /\ pc = "before_parse_arguments"
    /\ Start("before_parse_arguments") /\ Finish("before_parse_arguments")
    /\ pc' = After("before_parse_arguments")
    /\ NoRaise
    /\ UNCHANGED << kept, parser_vars, config, config_init, object_vars,
                    run_vars >>

\* parse_arguments: self.config = self.parser.parse_args(); parse_args fails
\* on a malformed command line
ParseArguments ==
    /\ pc = "parse_arguments"
    /\ Start("parse_arguments")
    /\ \/ /\ \E cfg \in ParseResults(options) : config' = cfg /\ parsed' = << cfg >>
          /\ Finish("parse_arguments")
          /\ pc' = After("parse_arguments")
          /\ NoRaise
       \/ /\ Raise("parse_arguments", "parse_args", "ParserError")
          /\ UNCHANGED << config, parsed, completed >>
    /\ UNCHANGED << inputs, parser_vars, config_init, object_vars, run_vars >>

\* before_instantiate_classes: a no-op
BeforeInstantiateClasses ==
    /\ pc = "before_instantiate_classes"
    /\ Start("before_instantiate_classes") /\ Finish("before_instantiate_classes")
    /\ pc' = After("before_instantiate_classes")
    /\ NoRaise
    /\ UNCHANGED << kept, parser_vars, config, config_init, object_vars,
                    run_vars >>

----------------------------------------------------------------------------
(* Step 7: instantiate_classes *)

\* an instance of cls built by cls(**kwargs)
New(cls, kwargs) == [cls |-> cls, kwargs |-> kwargs]

\* instantiate_model: self.model_class(**self.config_init.get('model', {}))
instantiate_model(cls, ci) == New(cls, Section(ci, "model"))

prepare_fit_kwargs_model_only(m, dcls, ci) == [k \in { "model" } |-> m]

\* prepare_fit_kwargs: the model and, if a datamodule class was given, the
\* datamodule built from config_init['data']
prepare_fit_kwargs(m, dcls, ci) ==
    IF dcls # NoClass
    THEN [k \in { "model", "datamodule" } |->
            IF k = "model" THEN m ELSE New(dcls, Section(ci, "data"))]
    ELSE [k \in { "model" } |-> m]

MergeKwargsCallerWins(kwargs, resolved) == Update(resolved, kwargs)

\* line 226: self.trainer_kwargs.update(self.config_init['trainer'])
MergeKwargs(kwargs, resolved) == Update(kwargs, resolved)

ShouldAppendUnlessSupplied(kwargs, scc) ==
    scc # NoClass /\ "callbacks" \notin DOMAIN kwargs

\* line 229: if self.save_config_callback is not None
ShouldAppend(kwargs, scc) == scc # NoClass

\* lines 226-230: the keyword arguments of the trainer constructor
TrainerKwargs(kwargs, resolved, scc) ==
    LET merged == MergeKwargs(kwargs, resolved)
        listed == IF "callbacks" \notin DOMAIN merged
                     \/ merged["callbacks"].kind = "none"
                  THEN Update(merged, [k \in { "callbacks" } |-> List(<< >>)])
                  ELSE merged
    IN  IF ShouldAppend(kwargs, scc)
        THEN [listed EXCEPT !["callbacks"] =
                 List(Append(@.items, SaveConfigInstance))]
        ELSE listed

\* the list that line 230 appends to is the very list object held by
\* config_init['trainer'] when line 226 took it from there
AliasedAppend(ci, kwargs, scc) ==
    LET o == Option("trainer", "callbacks")
    IN  IF ShouldAppend(kwargs, scc) /\ o \in DOMAIN ci /\ ci[o].kind = "list"
        THEN [ci EXCEPT ![o] = List(Append(@.items, SaveConfigInstance))]
        ELSE ci

CallbackConfigInit(cfg, ci) == ci

\* line 230: the callback is given self.config, the tree as parsed
CallbackConfig(cfg, ci) == cfg

\* line 209: self.config_init = self.parser.instantiate_subclasses(self.config)
InstantiateSubclasses ==
    /\ pc = "instantiate_classes"
    /\ Start("instantiate_classes")
    /\ \/ /\ config_init' = Expand(config)
          /\ pc' = "instantiate_model"
          /\ NoRaise
       \/ /\ \E e \in ConstructionErrors :
                Raise("instantiate_classes", "instantiate_subclasses", e)
          /\ UNCHANGED config_init
    /\ UNCHANGED << kept, completed, parser_vars, config, object_vars,
                    run_vars >>

\* line 210
InstantiateModel ==
    /\ pc = "instantiate_model"
    /\ \/ /\ model' = << instantiate_model(model_class, config_init) >>
          /\ pc' = "prepare_fit_kwargs"
          /\ NoRaise
       \/ /\ \E e \in ConstructionErrors :
                Raise("instantiate_classes", "instantiate_model", e)
          /\ UNCHANGED model
    /\ UNCHANGED << kept, steps, completed, parser_vars, config, config_init,
                    fit_kwargs, trainer, cb_instances, trainer_calls,
                    trainer_kwargs, logger, run_vars >>

\* line 211; the datamodule constructor can raise
PrepareFitKwargs ==
    /\ pc = "prepare_fit_kwargs"
    /\ \/ /\ fit_kwargs' = prepare_fit_kwargs(model[1], datamodule_class,
                                              config_init)
          /\ pc' = "instantiate_trainer"
          /\ NoRaise
       \/ /\ datamodule_class # NoClass
          /\ fit_kwargs' = [k \in { "model" } |-> model[1]]
          /\ \E e \in ConstructionErrors :
                Raise("instantiate_classes", "prepare_fit_kwargs", e)
    /\ UNCHANGED << kept, steps, completed, parser_vars, config, config_init,
                    model, trainer, cb_instances, trainer_calls,
                    trainer_kwargs, logger, run_vars >>

\* line 212; the trainer constructor can raise
InstantiateTrainer ==
    /\ pc = "instantiate_trainer"
    /\ LET resolved == Section(config_init, "trainer")
           kw == TrainerKwargs(trainer_kwargs, resolved, save_config_callback)
       IN  /\ trainer_kwargs' = kw
           /\ config_init' = AliasedAppend(config_init, trainer_kwargs,
                                           save_config_callback)
           /\ cb_instances' =
                 IF ShouldAppend(trainer_kwargs, save_config_callback)
                 THEN Append(cb_instances,
                             NewSaveConfigCallback("parser",
                                 CallbackConfig(config, config_init)))
                 ELSE cb_instances
           /\ trainer_calls' = Append(trainer_calls, kw)
           /\ \/ /\ trainer' = << New(trainer_class, kw) >>
                 /\ \E lg \in LoggerStates : logger' = lg
                 /\ Finish("instantiate_classes")
                 /\ pc' = After("instantiate_classes")
                 /\ NoRaise
              \/ /\ \E e \in ConstructionErrors :
                       Raise("instantiate_classes", "instantiate_trainer", e)
                 /\ UNCHANGED << trainer, logger, completed >>
    /\ UNCHANGED << kept, steps, parser_vars, config, model, fit_kwargs,
                    run_vars >>

----------------------------------------------------------------------------
(* Steps 8-10: before_fit, fit, after_fit *)

\* before_fit: a no-op
BeforeFit ==
    /\ pc = "before_fit"
    /\ Start("before_fit") /\ Finish("before_fit")
    /\ pc' = After("before_fit")
    /\ NoRaise
    /\ UNCHANGED << kept, parser_vars, config, config_init, object_vars,
                    run_vars >>

\* fit, line 239: the call self.trainer.fit(**self.fit_kwargs) is made
Fit ==
    /\ pc = "fit"
    /\ Start("fit")
    /\ fit_calls' = Append(fit_calls, fit_kwargs)
    /\ pc' = "trainer_fit"
    /\ NoRaise
    /\ UNCHANGED << kept, completed, parser_vars, config, config_init,
                    object_vars, fit_result, hook_log, saves, files >>

\* inside trainer.fit: the trainer establishes its log directory
TrainerSetupLogDir ==
    /\ pc = "trainer_fit"
    /\ logger = LogDirNone
    /\ logger' = LogDir
    /\ NoRaise
    /\ UNCHANGED << kept, pc, steps, completed, parser_vars, config,
                    config_init, model, fit_kwargs, trainer, cb_instances,
                    trainer_calls, trainer_kwargs, run_vars >>

\* inside trainer.fit: the trainer calls on_train_start of the
\* SaveConfigCallback in its callbacks; an exception of the hook leaves
\* trainer.fit and then __init__
OnTrainStart ==
    /\ pc = "trainer_fit"
    /\ hook_log = << >>
    /\ cb_instances # << >>
    /\ LET out == HookOutcome(logger)
           a == SaveArgs(cb_instances[1], logger)
       IN  /\ hook_log' = Append(hook_log, [logger |-> logger, outcome |-> out])
           /\ IF out = "ok"
              THEN /\ saves' = Append(saves, a)
                   /\ files' = { f \in files : f.path # a.path } \cup
                               { [path |-> a.path,
                                  content |-> Dump(a.cfg, a.skip_none)] }
                   /\ UNCHANGED pc
                   /\ NoRaise
              ELSE /\ Raise("fit", "on_train_start", out)
                   /\ UNCHANGED << saves, files >>
    /\ UNCHANGED << kept, steps, completed, parser_vars, config, config_init,
                    object_vars, fit_calls, fit_result >>

\* trainer.fit raises
FitRaises ==
    /\ pc = "trainer_fit"
    /\ \E e \in FitErrors : Raise("fit", "trainer.fit", e)
    /\ UNCHANGED << kept, steps, completed, parser_vars, config, config_init,
                    object_vars, run_vars >>

\* trainer.fit returns and line 239 assigns self.fit_result
FitReturns ==
    /\ pc = "trainer_fit"
    /\ fit_result' = << "result" >>
    /\ Finish("fit")
    /\ pc' = After("fit")
    /\ NoRaise
    /\ UNCHANGED << kept, steps, parser_vars, config, config_init,
                    object_vars, fit_calls, hook_log, saves, files >>

\* after_fit: a no-op
AfterFit ==
    /\ pc = "after_fit"
    /\ Start("after_fit") /\ Finish("after_fit")
    /\ pc' = After("after_fit")
    /\ NoRaise
    /\ UNCHANGED << kept, parser_vars, config, config_init, object_vars,
                    run_vars >>

----------------------------------------------------------------------------

Next ==
    \/ InitParser
    \/ AddArgumentsToParser
    \/ AddTrainerArgs
    \/ AddModuleArgs
    \/ AddDatamoduleArgs
    \/ BeforeParseArguments
    \/ ParseArguments
    \/ BeforeInstantiateClasses
    \/ InstantiateSubclasses
    \/ InstantiateModel
    \/ PrepareFitKwargs
    \/ InstantiateTrainer
    \/ BeforeFit
    \/ Fit
    \/ TrainerSetupLogDir
    \/ OnTrainStart
    \/ FitRaises
    \/ FitReturns
    \/ AfterFit

Spec == Init /\ [][Next]_vars

FairSpec == Spec /\ WF_vars(Next)

----------------------------------------------------------------------------
(* Properties *)

Range(s) == { s[i] : i \in 1..Len(s) }

ParseDone == "parse_arguments" \in Range(completed)

\* the values instantiate_classes resolves for a namespace key
Resolved(k) == Section(Expand(config), k)

NamespaceKeys ==
    { "trainer", "model" } \cup
    (IF datamodule_class # NoClass THEN { "data" } ELSE {})

ClassesUnder(k) == { r \in registered : r.key = k }

InstantiationCalls ==
    { "instantiate_subclasses", "instantiate_model", "prepare_fit_kwargs",
      "instantiate_trainer" }

\* C1: constructing a LightningCLI runs the ten steps exactly once each, in
\* the fixed order, each to completion before the next starts and none
\* skipped (a construction that does not return, because a step raised,
\* has run a prefix of that order and stopped in the raising step).
C1_StepsInFixedOrder ==
    /\ IsPrefix(steps, PipelineOrder)
    /\ IsPrefix(completed, steps)
    /\ Len(steps) - Len(completed) <= 1
    /\ pc = "done" => completed = PipelineOrder
    /\ pc = "aborted" <=> error # ""
    /\ pc = "aborted" => Len(steps) = Len(completed) + 1

C1_Witness == pc = "done" /\ steps = PipelineOrder

\* C2: when an instantiation of instantiate_classes fails, the pipeline
\* aborts with that error and before_fit, trainer.fit and after_fit are
\* never invoked.
C2_InstantiationFailureAborts ==
    failed_at \in InstantiationCalls =>
        /\ pc = "aborted"
        /\ error \in ConstructionErrors
        /\ "before_fit" \notin Range(steps)
        /\ "fit" \notin Range(steps)
        /\ "after_fit" \notin Range(steps)
        /\ fit_calls = << >>
        /\ fit_result = << >>

C2_Witness ==
    /\ failed_at = "instantiate_model"
    /\ pc = "aborted"
    /\ config[Option("model", "lr")] = NoneVal

C3_FitCalledOnce ==
    /\ Len(fit_calls) <= 1
    /\ (pc \in { "trainer_fit", "after_fit", "done" }
        \/ failed_at \in { "trainer.fit", "on_train_start" })
          => Len(fit_calls) = 1
    /\ \A i \in 1..Len(fit_calls) :
          LET c == fit_calls[i]
          IN  /\ "model" \in DOMAIN c
              /\ c["model"] = New(model_class, Resolved("model"))
              /\ "datamodule" \in DOMAIN c <=> datamodule_class # NoClass
              /\ "datamodule" \in DOMAIN c =>
                    c["datamodule"] = New(datamodule_class, Resolved("data"))
              /\ DOMAIN c \subseteq { "model", "datamodule" }

\* C3: once instantiation has passed, trainer.fit is invoked, and it is
\* invoked exactly once, with the model built from the resolved model values
\* and with a datamodule (built from the resolved data values) if and only
\* if a datamodule class was given.
C3_FitOnceWithModelAndData ==
    /\ []C3_FitCalledOnce
    /\ (pc = "before_fit") ~> (Len(fit_calls) = 1)

C3_Witness ==
    /\ Len(fit_calls) = 1
    /\ pc = "after_fit"
    /\ datamodule_class # NoClass
    /\ config[Option("model", "lr")] = Scalar("0.01")

SaveConfigCount(kw) == Count(kw["callbacks"].items, SaveConfigInstance)

ConfigPath == PathJoin(LogDir, "config.yaml")

\* C5: what on_train_start saves to <log_dir>/config.yaml is the tree that
\* parse_args returned (not the tree after subclass expansion, and not
\* changed by a later step), with no key left out, unset ones included.
C5_SavedConfigIsParsedTree ==
    \A i \in 1..Len(saves) :
        /\ parsed # << >>
        /\ saves[i].cfg = parsed[1]
        /\ config = parsed[1]
        /\ saves[i].skip_none = FALSE
        /\ saves[i].path = ConfigPath
        /\ \E f \in files :
              /\ f.path = ConfigPath
              /\ DOMAIN f.content = DOMAIN parsed[1]
              /\ \A o \in DOMAIN parsed[1] : f.content[o] = parsed[1][o]

C5_Witness ==
    /\ saves # << >>
    /\ config[Option("trainer", "callbacks")] = List(<< CallbackSpec >>)
    /\ config[Option("model", "lr")] = NoneVal
    /\ \E f \in files : f.content[Option("model", "lr")] = NoneVal

TypeMismatchCall ==
    \/ pc = "add_core_arguments_to_parser" /\ ~IsSubclass(trainer_class, "Trainer")
    \/ pc = "add_module_args" /\ ~IsSubclass(model_class, "LightningModule")
    \/ pc = "add_datamodule_args"
       /\ ~IsSubclass(datamodule_class, "LightningDataModule")

\* C6: add_trainer_args, add_module_args and add_datamodule_args called with
\* a class that is not a subclass of the expected base fail (AssertionError)
\* and leave the parser's registered options unchanged.
C6_TypeMismatchLeavesParser ==
    [][TypeMismatchCall =>
          /\ options' = options
          /\ registered' = registered
          /\ error' = "AssertionError"
          /\ pc' = "aborted"]_vars

C6_Witness ==
    /\ error = "AssertionError"
    /\ failed_at = "add_datamodule_args"
    /\ Option("model", "lr") \in options
    /\ \A o \in options : o.key # "data"

C8_FitFailurePropagates ==
    failed_at \in { "trainer.fit", "on_train_start" } =>
        /\ pc = "aborted"
        /\ error \in FitErrors \cup StateErrors
        /\ Len(fit_calls) = 1
        /\ Count(steps, "fit") = 1
        /\ "after_fit" \notin Range(steps)
        /\ fit_result = << >>

C8_Witness ==
    /\ failed_at = "trainer.fit"
    /\ error \in FitErrors
    /\ pc = "aborted"

\* C9: on_train_start invoked while the trainer has no logger or no log_dir
\* fails (AttributeError / TypeError) without calling the parser's save, so
\* no config.yaml is written; a file exists only after the hook ran with the
\* log directory established.
C9_HookNeedsLogDir ==
    /\ \A i \in 1..Len(hook_log) :
          hook_log[i].logger # LogDir =>
              /\ hook_log[i].outcome \in StateErrors
              /\ error = hook_log[i].outcome
              /\ pc = "aborted"
              /\ saves = << >>
              /\ files = {}
    /\ files # {} =>
          \E i \in 1..Len(hook_log) :
              hook_log[i].logger = LogDir /\ hook_log[i].outcome = "ok"
    /\ Len(saves) = Cardinality({ i \in 1..Len(hook_log) :
                                     hook_log[i].logger = LogDir })

C9_Witness ==
    /\ hook_log # << >>
    /\ hook_log[1].logger = LogDirNone
    /\ failed_at = "on_train_start"

\* C10: in the keyword arguments of the trainer constructor, a keyword that
\* the caller supplied and that is also among the resolved trainer values
\* has the resolved value (callbacks: the resolved list, empty for None,
\* before the SaveConfigCallback is appended); a caller keyword that is not
\* among the trainer values is passed unchanged.
C10_ResolvedValuesOverrideCaller ==
    \A i \in 1..Len(trainer_calls) :
        LET kw == trainer_calls[i]
            resolved == Resolved("trainer")
            suffix == IF save_config_callback # NoClass
                      THEN << SaveConfigInstance >> ELSE << >>
        IN  \A k \in DOMAIN caller_kwargs :
                /\ k \in DOMAIN kw
                /\ IF k \notin DOMAIN resolved
                   THEN kw[k] = caller_kwargs[k]
                   ELSE IF k = "callbacks"
                   THEN kw[k] = List((IF resolved[k].kind = "none"
                                      THEN << >> ELSE resolved[k].items)
                                     \o suffix)
                   ELSE kw[k] = resolved[k]

C10_Witness ==
    /\ trainer_calls # << >>
    /\ DOMAIN caller_kwargs = { "callbacks", "max_epochs", "plugins" }
    /\ config[Option("trainer", "callbacks")] = NoneVal
    /\ config[Option("trainer", "max_epochs")] = Scalar("1")

====
